---- MODULE Spec2Model ----
(***************************************************************************)
(* Model of src/src/main.c: the Sateliot NTN connectivity state machine    *)
(* (main), its asynchronous handlers (lte_handler, gnss_event_handler),    *)
(* the recovery escalator (attempt_error_recovery), the TLE refresh        *)
(* (update_sateliot_tles) and the pass predictor                           *)
(* (calculate_sateliot_satellite_pass).                                    *)
(*                                                                         *)
(* Times are in milliseconds, as k_uptime_get() returns them.  Return      *)
(* codes are strings: "OK" is 0, "EFAULT" is -EFAULT, "ENODATA" is         *)
(* -ENODATA, "EINVAL" is -EINVAL, "EAGAIN" is the timeout of k_sem_take,   *)
(* "ECFG" is any non-zero result of a modem AT command.                    *)
(***************************************************************************)
EXTENDS Integers, Sequences, FiniteSets, TLC

\* ------------------------------------------------------------------------
\*  Bounds of the model
\* ------------------------------------------------------------------------

\* the clock samples cover the days 0 .. MaxDays of uptime
MaxDays == 1

\* update_sateliot_tles is followed up to MaxFailures consecutive failures
MaxFailures == 5

\* the Step 2 timeouts of one attachment are counted up to MaxOsc
MaxOsc == 2

\* ------------------------------------------------------------------------
\*  Program constants
\* ------------------------------------------------------------------------

MIN_SATELLITE_PASS_DURATION_MS == 30 * 1000
MAX_SATELLITE_PASS_DURATION_MS == 8 * 60 * 1000
TLE_UPDATE_INTERVAL_HOURS == 24
MAX_ERROR_RECOVERY_ATTEMPTS == 3
WDT_WINDOW_MAX_MS == 60000
HOUR_MS == 60 * 60 * 1000
DAY_MS == 24 * 60 * 60 * 1000
morning_pass_start == 10 * 60 * 60 * 1000
evening_pass_start == 21 * 60 * 60 * 1000
MAX_IDLE_SLEEP_MS == 30 * 60 * 1000
IDLE_POLL_MS == 30 * 1000
GPS_FIX_TIMEOUT_MS == 180 * 1000
STEP1_TIMEOUT_MS == 5 * 60 * 1000
STEP2_SETTLE_MS == 30 * 1000
STEP2_TIMEOUT_MS == 15 * 60 * 1000
LOOP_PAUSE_MS == 500
RECOVERY_SOFT_SLEEP_MS == 5 * 1000
RECOVERY_HARD_SLEEP_MS == 10 * 1000
RECOVERY_PARTIAL_SLEEP_MS == 2 * 60 * 1000
SOCKET_RETRY_SLEEP_MS == 10 * 1000
SEND_RETRY_SLEEP_MS == 15 * 1000
max_retries == 3
PAYLOAD_BUFFER_SIZE == 256
MIN_BUFFER_SIZE_TELEMETRY == 128
TELEMETRY_SAFETY_MARGIN == 32
TELEMETRY_ESTIMATED_SIZE == 120
TELEMETRY_SANITY_FLOOR == 50

\* enum app_state
STATE_INIT == "STATE_INIT"
STATE_GETTING_GPS_FIX == "STATE_GETTING_GPS_FIX"
STATE_IDLE == "STATE_IDLE"
STATE_ATTEMPTING_CONNECTION_STEP1 == "STATE_ATTEMPTING_CONNECTION_STEP1"
STATE_ATTEMPTING_CONNECTION_STEP2 == "STATE_ATTEMPTING_CONNECTION_STEP2"
STATE_SENDING_DATA == "STATE_SENDING_DATA"
STATE_ERROR == "STATE_ERROR"
STATE_RECOVERY == "STATE_RECOVERY"
STATE_TLE_UPDATE == "STATE_TLE_UPDATE"

app_state ==
    { STATE_INIT, STATE_GETTING_GPS_FIX, STATE_IDLE,
      STATE_ATTEMPTING_CONNECTION_STEP1, STATE_ATTEMPTING_CONNECTION_STEP2,
      STATE_SENDING_DATA, STATE_ERROR, STATE_RECOVERY, STATE_TLE_UPDATE }

\* enum attachment_step
ATTACH_STEP_1 == "ATTACH_STEP_1"
ATTACH_STEP_2 == "ATTACH_STEP_2"
ATTACH_COMPLETE == "ATTACH_COMPLETE"

\* ------------------------------------------------------------------------
\*  Inputs the environment supplies, drawn from small sets
\* ------------------------------------------------------------------------

\* times of day at which the clock is sampled: both window starts, the
\* millisecond before and after each, midnight and the last millisecond
TodSamples ==
    { 0, morning_pass_start - 1, morning_pass_start, morning_pass_start + 1,
      evening_pass_start - 1, evening_pass_start, evening_pass_start + 1,
      DAY_MS - 1 }

\* values k_uptime_get() returns to the predictor when it is called on its own
Times == { d * DAY_MS + tod : d \in 0..MaxDays, tod \in TodSamples }

\* values k_uptime_get() returns to the state machine loop: a minute before
\* the morning window start of each day, and that start
LoopTimes ==
    { d * DAY_MS + tod : d \in 0..MaxDays,
                         tod \in { morning_pass_start - 60000, morning_pass_start } }

\* ground latitudes (degrees) a fix can report; for each of them the double
\* arithmetic of lat_factor and of the product is exact
Lats == { -90, 0, 45 }

\* the longitude (degrees) of the fix that reports the latitude lat
FixLon(lat) == 2 * lat

\* lat_param before config.device_lat is read for it
NoCoord == 999

\* values of rand() for the pass duration: the extremes of rand() % 450000
RandSamples == { 0, 449999 }

\* values of rand() for the elevation and the satellite id
RandSmall == { 59 }

\* values snprintf can return for the telemetry record in the state machine
\* loop: one below the sanity floor and the shortest record
RenderedSamples == { 49, 74 }

Abs(x) == IF x < 0 THEN -x ELSE x

Min(a, b) == IF a < b THEN a ELSE b

\* struct satellite_pass of main() before the first prediction: main never
\* reads it before calculate_sateliot_satellite_pass has written it
NoPass ==
    [ start_time |-> 0, end_time |-> 0, max_elevation |-> 0,
      satellite_id |-> 0, is_predicted |-> FALSE ]

\* query_time when the predictor has read no clock
NoTime == -1

\* a local of a function that is not running
NoValue == -2

\* payload_buffer after an snprintf that failed
PayloadIndeterminate == -1

\* a record an earlier cycle has left in the buffer
StalePayload == 60

\* capacities the encoder is called with when it is called on its own
Capacities == { 0, 1, 127, 128, 151, 152, 159, 160, 161, 200, 256, 257 }

\* values snprintf can return when the encoder is called on its own
EncoderRendered ==
    { -1, 0, 49, 50, 51, 74, 100, 159, 160, 161, 199, 200, 255, 256, 257 }

VARIABLES
    pc,                      \* position of main()
    current_state,           \* static enum app_state current_state
    current_attachment_step, \* static enum attachment_step
    lte_connected_sem,       \* K_SEM_DEFINE(lte_connected_sem, 0, 1)
    gps_fix_sem,             \* K_SEM_DEFINE(gps_fix_sem, 0, 1)
    err,                     \* int err of main()
    gps_coordinates_valid,   \* config.gps_coordinates_valid
    device_lat,              \* config.device_lat
    device_lon,              \* config.device_lon
    sat_valid,               \* config.satellites[i].valid
    update_needed,           \* config.tle_config.update_needed
    last_update_time,        \* config.tle_config.last_update_time
    update_interval_hours,   \* config.tle_config.update_interval_hours
    consecutive_failures,    \* config.tle_config.consecutive_failures
    recovery_attempts,       \* config.recovery.recovery_attempts
    last_good_state,         \* config.recovery.last_good_state
    error_state,             \* parameter of attempt_error_recovery
    next_pass,               \* struct satellite_pass next_pass of main()
    pred_ret,                \* result of the last predictor call
    query_time,              \* current_time read by the last predictor call
    uptime,                  \* last value k_uptime_get() returned
    sinceFeed,               \* ms the loop has blocked since the last wdt_feed
    modemOnline,             \* a connect request is outstanding or served
    gnssRunning,             \* nrf_modem_gnss_start() succeeded
    sigFresh,                \* a registration event since the last connect request
    streak,                  \* position of the invocation in a run of escalator
                             \* invocations that began with the counter at 0 and
                             \* saw no registration event (0: no such run)
    level,                   \* escalation branch the last invocation executed
    inc_tmp,                 \* value loaded by recovery_attempts++ before its store
    regSinceInvoke,          \* a registration event since the last invocation began
    payload_len,             \* length of the record held by payload_buffer
    buffer_size,             \* buffer_size of format_telemetry_data
    fmt_ret,                 \* result of format_telemetry_data
    fmt_len,                 \* int ret of format_telemetry_data (snprintf result)
    send_outcomes,           \* what socket() and sendto() answer, attempt by attempt
    tx_ret,                  \* result of robust_data_send
    send_attempts,           \* attempts robust_data_send has made
    at_lat,                  \* config.device_lat as read for lat_param of
                             \* modem_configure_for_sateliot_attachment
    osc                      \* Step 2 timeouts since the attachment began

vars ==
    << pc, current_state, current_attachment_step, lte_connected_sem,
       gps_fix_sem, err, gps_coordinates_valid, device_lat, device_lon,
       sat_valid, update_needed, last_update_time, update_interval_hours,
       consecutive_failures, recovery_attempts, last_good_state, error_state,
       next_pass, pred_ret, query_time, uptime, sinceFeed, modemOnline,
       gnssRunning, sigFresh, streak, level, inc_tmp, regSinceInvoke,
       payload_len, buffer_size, fmt_ret, fmt_len, send_outcomes, tx_ret,
       send_attempts, at_lat, osc >>

\* ------------------------------------------------------------------------
\*  Pure functions of the program
\* ------------------------------------------------------------------------

\* set_state recording every state that is left
set_state_unguarded(cur, lg, new_state) ==
    IF new_state # cur
    THEN [ cs |-> new_state, lg |-> cur ]
    ELSE [ cs |-> cur, lg |-> lg ]

\* set_state: the new (current_state, last_good_state) pair
set_state(cur, lg, new_state) ==
    IF new_state # cur
    THEN [ cs |-> new_state,
           lg |-> IF cur # STATE_ERROR /\ cur # STATE_RECOVERY THEN cur ELSE lg ]
    ELSE [ cs |-> cur, lg |-> lg ]

\* the window selection with <= in place of < in both comparisons
next_pass_start_le(current_time) ==
    LET time_since_midnight == current_time % DAY_MS
    IN  IF time_since_midnight <= morning_pass_start
        THEN current_time + (morning_pass_start - time_since_midnight)
        ELSE IF time_since_midnight <= evening_pass_start
             THEN current_time + (evening_pass_start - time_since_midnight)
             ELSE current_time + (DAY_MS - time_since_midnight) + morning_pass_start

\* start of the next service window after current_time (lines 468-484)
next_pass_start(current_time) ==
    LET time_since_midnight == current_time % DAY_MS
    IN  IF time_since_midnight < morning_pass_start
        THEN current_time + (morning_pass_start - time_since_midnight)
        ELSE IF time_since_midnight < evening_pass_start
             THEN current_time + (evening_pass_start - time_since_midnight)
             ELSE current_time + (DAY_MS - time_since_midnight) + morning_pass_start

\* duration of the pass (lines 464, 487-491): lat_factor is
\* 1.0 + (fabs(lat)/90.0)*0.5 = (180 + |lat|)/180, and the cast to int64_t
\* truncates the product
pass_duration(ground_lat, r) ==
    LET base == MIN_SATELLITE_PASS_DURATION_MS
                + (r % (MAX_SATELLITE_PASS_DURATION_MS - MIN_SATELLITE_PASS_DURATION_MS))
    IN  (base * (180 + Abs(ground_lat))) \div 180

\* the predictor with the validity test applied after the computation
predict_no_guard(pass, pass_null, valid, ground_lat, t, r_dur, r_el, r_sat) ==
    IF pass_null
    THEN [ ret |-> "EINVAL", pass |-> pass, time |-> NoTime ]
    ELSE [ ret |-> IF valid THEN "OK" ELSE "ENODATA",
           pass |-> [ start_time |-> next_pass_start(t),
                      end_time |-> next_pass_start(t) + pass_duration(ground_lat, r_dur),
                      max_elevation |-> 30 + (r_el % 56),
                      satellite_id |-> r_sat % 4,
                      is_predicted |-> TRUE ],
           time |-> t ]

\* calculate_sateliot_satellite_pass(pass, ground_lat, ground_lon): the
\* result, the pass the caller holds afterwards and the clock value read.
\* pass_null is the !pass test, valid is config.gps_coordinates_valid, t is
\* what k_uptime_get() returns, r_dur, r_el, r_sat are the three rand() calls
calculate_sateliot_satellite_pass(pass, pass_null, valid, ground_lat, t, r_dur, r_el, r_sat) ==
    IF pass_null
    THEN [ ret |-> "EINVAL", pass |-> pass, time |-> NoTime ]
    ELSE IF ~valid
    THEN [ ret |-> "ENODATA", pass |-> pass, time |-> NoTime ]
    ELSE [ ret |-> "OK",
           pass |-> [ start_time |-> next_pass_start(t),
                      end_time |-> next_pass_start(t) + pass_duration(ground_lat, r_dur),
                      max_elevation |-> 30 + (r_el % 56),
                      satellite_id |-> r_sat % 4,
                      is_predicted |-> TRUE ],
           time |-> t ]

\* update_sateliot_tles extending the interval from the third failure on
update_sateliot_tles_ge3(t, needed, last, interval, failures, sats) ==
    LET hours_since_update == (t - last) \div HOUR_MS
        any_invalid == \E i \in 0..3 : ~sats[i]
        f == IF any_invalid THEN failures + 1 ELSE 0
    IN  IF hours_since_update < interval /\ ~needed
        THEN [ ret |-> "OK", needed |-> needed, last |-> last,
               interval |-> interval, failures |-> failures ]
        ELSE [ ret |-> "OK", needed |-> FALSE, last |-> t,
               interval |-> IF f >= 3 THEN TLE_UPDATE_INTERVAL_HOURS * 2
                            ELSE TLE_UPDATE_INTERVAL_HOURS,
               failures |-> f ]

\* update_sateliot_tles() at clock value t: the new tle_config fields
update_sateliot_tles(t, needed, last, interval, failures, sats) ==
    LET hours_since_update == (t - last) \div HOUR_MS
        any_invalid == \E i \in 0..3 : ~sats[i]
        f == IF any_invalid THEN failures + 1 ELSE 0
    IN  IF hours_since_update < interval /\ ~needed
        THEN [ ret |-> "OK", needed |-> needed, last |-> last,
               interval |-> interval, failures |-> failures ]
        ELSE [ ret |-> "OK", needed |-> FALSE, last |-> t,
               interval |-> IF f > 3 THEN TLE_UPDATE_INTERVAL_HOURS * 2
                            ELSE TLE_UPDATE_INTERVAL_HOURS,
               failures |-> f ]

\* config.satellites[i].valid as initialize_sateliot_config leaves it
InitialSatValid == [ i \in 0..3 |-> i = 0 ]

\* robust_data_send looping while retry_count <= max_retries
RECURSIVE robust_data_send_le(_, _, _)
robust_data_send_le(outcomes, retry_count, slept) ==
    IF retry_count > max_retries
    THEN [ ret |-> "EIO", attempts |-> retry_count, slept |-> slept ]
    ELSE IF outcomes[retry_count + 1] = "sock_fail"
    THEN robust_data_send_le(outcomes, retry_count + 1, slept + SOCKET_RETRY_SLEEP_MS)
    ELSE IF outcomes[retry_count + 1] = "send_fail"
    THEN robust_data_send_le(outcomes, retry_count + 1, slept + SEND_RETRY_SLEEP_MS)
    ELSE [ ret |-> "OK", attempts |-> retry_count + 1, slept |-> slept ]

\* robust_data_send: outcomes[i] is what attempt i meets, "sock_fail"
\* (socket() < 0), "send_fail" (sendto() < 0) or "sent"
RECURSIVE robust_data_send(_, _, _)
robust_data_send(outcomes, retry_count, slept) ==
    IF retry_count >= max_retries
    THEN [ ret |-> "EIO", attempts |-> retry_count, slept |-> slept ]
    ELSE IF outcomes[retry_count + 1] = "sock_fail"
    THEN robust_data_send(outcomes, retry_count + 1, slept + SOCKET_RETRY_SLEEP_MS)
    ELSE IF outcomes[retry_count + 1] = "send_fail"
    THEN robust_data_send(outcomes, retry_count + 1, slept + SEND_RETRY_SLEEP_MS)
    ELSE [ ret |-> "OK", attempts |-> retry_count + 1, slept |-> slept ]

SendOutcomes ==
    { << "sent", "sent", "sent", "sent" >>,
      << "sock_fail", "sent", "sent", "sent" >>,
      << "send_fail", "send_fail", "sent", "sent" >>,
      << "sock_fail", "send_fail", "send_fail", "sent" >> }

\* every answer the network can give to max_retries + 1 attempts
AllSendOutcomes == [ 1..(max_retries + 1) -> { "sock_fail", "send_fail", "sent" } ]

\* how long a k_sem_take that ends with the signal has blocked
WaitElapsed(timeout) == { timeout - 1 }

\* ------------------------------------------------------------------------
\*  Initial state: the statics are zero-initialized, main() has not run
\* ------------------------------------------------------------------------

Init ==
    /\ pc = "boot"
    /\ current_state = STATE_INIT
    /\ current_attachment_step = ATTACH_STEP_1
    /\ lte_connected_sem = 0
    /\ gps_fix_sem = 0
    /\ err = "OK"
    /\ gps_coordinates_valid = FALSE
    /\ device_lat = 0
    /\ device_lon = 0
    /\ sat_valid = [ i \in 0..3 |-> FALSE ]
    /\ update_needed = FALSE
    /\ last_update_time = 0
    /\ update_interval_hours = 0
    /\ consecutive_failures = 0
    /\ recovery_attempts = 0
    /\ last_good_state = STATE_INIT
    /\ error_state = STATE_INIT
    /\ next_pass = NoPass
    /\ pred_ret = "OK"
    /\ query_time = NoTime
    /\ uptime = 0
    /\ sinceFeed = 0
    /\ modemOnline = FALSE
    /\ gnssRunning = FALSE
    /\ sigFresh = FALSE
    /\ streak = 0
    /\ level = "none"
    /\ inc_tmp = NoValue
    /\ regSinceInvoke = FALSE
    /\ payload_len = 0
    /\ buffer_size = PAYLOAD_BUFFER_SIZE
    /\ fmt_ret = "none"
    /\ fmt_len = NoValue
    /\ send_outcomes = << >>
    /\ tx_ret = "none"
    /\ send_attempts = 0
    /\ at_lat = NoCoord
    /\ osc = 0

tleVars == << update_needed, last_update_time, update_interval_hours, consecutive_failures >>
posVars == << gps_coordinates_valid, device_lat, device_lon >>
predVars == << next_pass, pred_ret, query_time >>
semVars == << lte_connected_sem, gps_fix_sem >>
recVars == << recovery_attempts, error_state, streak, level >>
envVars == << modemOnline, gnssRunning, sigFresh >>
raceVars == << inc_tmp, regSinceInvoke >>
sendVars == << payload_len, buffer_size, fmt_ret, fmt_len, send_outcomes, tx_ret, send_attempts >>
attachVars == << at_lat, osc >>

\* ------------------------------------------------------------------------
\*  main(): the initialization sequence (lines 698-734)
\* ------------------------------------------------------------------------

\* initialize_sateliot_config() (it always returns 0, so the set_state of
\* line 708 never runs)
InitConfig ==
    /\ pc = "boot"
    /\ gps_coordinates_valid' = FALSE
    /\ device_lat' = 0
    /\ device_lon' = 0
    /\ update_needed' = TRUE
    /\ last_update_time' = 0
    /\ update_interval_hours' = TLE_UPDATE_INTERVAL_HOURS
    /\ consecutive_failures' = 0
    /\ recovery_attempts' = 0
    /\ last_good_state' = STATE_IDLE
    /\ sat_valid' = InitialSatValid
    /\ err' = "OK"
    /\ pc' = "init_wdt"
    /\ UNCHANGED << attachVars, sendVars, raceVars, current_state, current_attachment_step, semVars, error_state,
                    predVars, uptime, sinceFeed, envVars, streak, level >>

\* setup_watchdog() succeeds
SetupWatchdog ==
    /\ pc = "init_wdt"
    /\ err' = "OK"
    /\ sinceFeed' = 0
    /\ pc' = "init_modem"
    /\ UNCHANGED << attachVars, sendVars, raceVars, current_state, current_attachment_step, semVars, posVars,
                    sat_valid, tleVars, recVars, last_good_state, predVars,
                    uptime, envVars >>

\* setup_watchdog() fails: while(1) { k_sleep(K_FOREVER); }
SetupWatchdogFails ==
    /\ pc = "init_wdt"
    /\ err' = "ENODEV"
    /\ pc' = "halted"
    /\ UNCHANGED << attachVars, sendVars, raceVars, current_state, current_attachment_step, semVars, posVars,
                    sat_valid, tleVars, recVars, last_good_state, predVars,
                    uptime, sinceFeed, envVars >>

\* lte_lc_init_and_connect_async(lte_handler)
InitModem ==
    /\ pc = "init_modem"
    /\ \E ok \in BOOLEAN :
         IF ok
         THEN /\ err' = "OK"
              /\ modemOnline' = TRUE
              /\ UNCHANGED << current_state, last_good_state >>
         ELSE /\ err' = "ECFG"
              /\ current_state' = set_state(current_state, last_good_state, STATE_ERROR).cs
              /\ last_good_state' = set_state(current_state, last_good_state, STATE_ERROR).lg
              /\ UNCHANGED modemOnline
    /\ pc' = "init_gnss"
    /\ UNCHANGED << attachVars, sendVars, raceVars, current_attachment_step, semVars, posVars, sat_valid, tleVars,
                    recVars, predVars, uptime, sinceFeed, gnssRunning, sigFresh >>

\* gnss_init_and_start()
InitGnss ==
    /\ pc = "init_gnss"
    /\ \E ok \in BOOLEAN :
         IF ok
         THEN /\ err' = "OK"
              /\ gnssRunning' = TRUE
              /\ UNCHANGED << current_state, last_good_state >>
         ELSE /\ err' = "EFAULT"
              /\ current_state' = set_state(current_state, last_good_state, STATE_ERROR).cs
              /\ last_good_state' = set_state(current_state, last_good_state, STATE_ERROR).lg
              /\ UNCHANGED gnssRunning
    /\ pc' = "init_pm"
    /\ UNCHANGED << attachVars, sendVars, raceVars, current_attachment_step, semVars, posVars, sat_valid, tleVars,
                    recVars, predVars, uptime, sinceFeed, modemOnline, sigFresh >>

\* configure_power_management() (its result is only logged), then
\* set_state(STATE_IDLE) of line 734
StartupFinish ==
    /\ pc = "init_pm"
    /\ \E pm \in { "OK", "ECFG" } : err' = pm
    /\ current_state' = set_state(current_state, last_good_state, STATE_IDLE).cs
    /\ last_good_state' = set_state(current_state, last_good_state, STATE_IDLE).lg
    /\ pc' = "loop"
    /\ UNCHANGED << attachVars, sendVars, raceVars, current_attachment_step, semVars, posVars, sat_valid, tleVars,
                    recVars, predVars, uptime, sinceFeed, envVars >>

\* ------------------------------------------------------------------------
\*  main(): the state machine loop (lines 740-895).  Every pass starts with
\*  wdt_feed and ends with k_sleep(K_MSEC(500)).  main() is split where it
\*  blocks on a semaphore and between the increment and the branch of the
\*  escalator; the handlers can run between any two steps.
\*
\*  sinceFeed records how long the pass has blocked; the reset the watchdog
\*  peripheral would perform is outside the model.  The default case of the
\*  switch (lines 887-890) has no action: the loop never sees STATE_INIT.
\* ------------------------------------------------------------------------

\* what configure_nordic_for_sateliot() can return: 0, or the result of the
\* first AT command that failed
ConfigureResults == { "OK", "ECFG" }

\* the Idle test without the force flag
tle_update_due_stale_only(t, needed, last, interval) ==
    (t - last) > interval * HOUR_MS

\* STATE_IDLE, lines 746-748: update_needed, or more than the interval since
\* last_update_time at the clock reading t
tle_update_due(t, needed, last, interval) ==
    needed \/ (t - last) > interval * HOUR_MS

\* the sleep until the pass without the cap
idle_sleep_uncapped(pass_start, t) ==
    IF pass_start - t > 0 THEN pass_start - t ELSE 0

\* STATE_IDLE, lines 756-762: the sleep until the pass starts, at most 30
\* minutes, none when the start is not ahead
idle_sleep(pass_start, t) ==
    IF pass_start - t > 0 THEN Min(pass_start - t, MAX_IDLE_SLEEP_MS) ELSE 0

\* STATE_IDLE, lines 746-751: the TLEs are flagged or stale
IdleToTleUpdate ==
    /\ pc = "loop"
    /\ current_state = STATE_IDLE
    /\ \E t \in LoopTimes :
         /\ t >= uptime
         /\ uptime' = t
         /\ tle_update_due(t, update_needed, last_update_time, update_interval_hours)
    /\ current_state' = set_state(current_state, last_good_state, STATE_TLE_UPDATE).cs
    /\ last_good_state' = set_state(current_state, last_good_state, STATE_TLE_UPDATE).lg
    /\ sinceFeed' = LOOP_PAUSE_MS
    /\ UNCHANGED << attachVars, sendVars, raceVars, pc, current_attachment_step, semVars, err, posVars, sat_valid,
                    tleVars, recVars, predVars, envVars >>

\* STATE_IDLE, lines 754-762 and 771: position valid, sleep until the pass
\* starts but at most 30 minutes.  The three k_uptime_get() calls of one pass
\* through the case fall on the same clock sample t.
IdleSleepUntilPass ==
    /\ pc = "loop"
    /\ current_state = STATE_IDLE
    /\ gps_coordinates_valid
    /\ \E t \in LoopTimes, r_dur \in RandSamples, r_el, r_sat \in RandSmall :
         /\ t >= uptime
         /\ ~tle_update_due(t, update_needed, last_update_time, update_interval_hours)
         /\ LET res == calculate_sateliot_satellite_pass(next_pass, FALSE,
                           gps_coordinates_valid, device_lat, t, r_dur, r_el, r_sat)
                max_sleep == idle_sleep(res.pass.start_time, t)
            IN  /\ next_pass' = res.pass
                /\ pred_ret' = res.ret
                /\ query_time' = res.time
                /\ sinceFeed' = max_sleep + LOOP_PAUSE_MS
         /\ uptime' = t
    /\ current_state' = set_state(current_state, last_good_state, STATE_GETTING_GPS_FIX).cs
    /\ last_good_state' = set_state(current_state, last_good_state, STATE_GETTING_GPS_FIX).lg
    /\ UNCHANGED << attachVars, sendVars, raceVars, pc, current_attachment_step, semVars, err, posVars, sat_valid,
                    tleVars, recVars, envVars >>

\* STATE_IDLE, lines 763-766 and 771: position not valid, poll after 30 s
IdlePoll ==
    /\ pc = "loop"
    /\ current_state = STATE_IDLE
    /\ ~gps_coordinates_valid
    /\ \E t \in LoopTimes :
         /\ t >= uptime
         /\ uptime' = t
         /\ ~tle_update_due(t, update_needed, last_update_time, update_interval_hours)
    /\ sinceFeed' = IDLE_POLL_MS + LOOP_PAUSE_MS
    /\ current_state' = set_state(current_state, last_good_state, STATE_GETTING_GPS_FIX).cs
    /\ last_good_state' = set_state(current_state, last_good_state, STATE_GETTING_GPS_FIX).lg
    /\ UNCHANGED << attachVars, sendVars, raceVars, pc, current_attachment_step, semVars, err, posVars, sat_valid,
                    tleVars, recVars, predVars, envVars >>

\* the TLE update handing back to Idle
tle_update_target_idle == STATE_IDLE

\* the state the TLE update leads to, line 784
tle_update_target == STATE_GETTING_GPS_FIX

\* STATE_TLE_UPDATE, lines 775-785
TleUpdate ==
    /\ pc = "loop"
    /\ current_state = STATE_TLE_UPDATE
    /\ \E t \in LoopTimes :
         /\ t >= uptime
         /\ uptime' = t
         /\ LET u == update_sateliot_tles(t, update_needed, last_update_time,
                         update_interval_hours, consecutive_failures, sat_valid)
            IN  /\ err' = u.ret
                /\ update_needed' = u.needed
                /\ last_update_time' = u.last
                /\ update_interval_hours' = u.interval
                /\ consecutive_failures' = IF u.ret # "OK" THEN u.failures + 1 ELSE u.failures
    /\ current_state' = set_state(current_state, last_good_state, tle_update_target).cs
    /\ last_good_state' = set_state(current_state, last_good_state, tle_update_target).lg
    /\ sinceFeed' = LOOP_PAUSE_MS
    /\ UNCHANGED << attachVars, sendVars, raceVars, pc, current_attachment_step, semVars, posVars, sat_valid,
                    recVars, predVars, envVars >>

\* STATE_GETTING_GPS_FIX, lines 788-790: k_sem_reset, then the wait begins
GpsWaitBegin ==
    /\ pc = "loop"
    /\ current_state = STATE_GETTING_GPS_FIX
    /\ gps_fix_sem' = 0
    /\ sinceFeed' = 0
    /\ pc' = "gps_wait"
    /\ UNCHANGED << attachVars, sendVars, raceVars, current_state, current_attachment_step, lte_connected_sem, err,
                    posVars, sat_valid, tleVars, recVars, last_good_state, predVars,
                    uptime, envVars >>

\* k_sem_take(&gps_fix_sem, K_SECONDS(180)) returns 0, lines 798-800
GpsFixSignalled ==
    /\ pc = "gps_wait"
    /\ gps_fix_sem = 1
    /\ gps_fix_sem' = 0
    /\ err' = "OK"
    /\ \E e \in WaitElapsed(GPS_FIX_TIMEOUT_MS) : sinceFeed' = sinceFeed + e + LOOP_PAUSE_MS
    /\ current_state' = set_state(current_state, last_good_state,
                                  STATE_ATTEMPTING_CONNECTION_STEP1).cs
    /\ last_good_state' = set_state(current_state, last_good_state,
                                    STATE_ATTEMPTING_CONNECTION_STEP1).lg
    /\ pc' = "loop"
    /\ UNCHANGED << attachVars, sendVars, raceVars, current_attachment_step, lte_connected_sem, posVars, sat_valid,
                    tleVars, recVars, predVars, uptime, envVars >>

\* the timeout always leading back to Idle
gps_timeout_target_idle(valid) == STATE_IDLE

\* STATE_GETTING_GPS_FIX, lines 793-797: the state after the timeout
gps_timeout_target(valid) ==
    IF valid THEN STATE_ATTEMPTING_CONNECTION_STEP1 ELSE STATE_IDLE

\* k_sem_take(&gps_fix_sem, K_SECONDS(180)) times out, lines 791-797
GpsFixTimeout ==
    /\ pc = "gps_wait"
    /\ gps_fix_sem = 0
    /\ err' = "EAGAIN"
    /\ sinceFeed' = sinceFeed + GPS_FIX_TIMEOUT_MS + LOOP_PAUSE_MS
    /\ LET target == gps_timeout_target(gps_coordinates_valid)
       IN  /\ current_state' = set_state(current_state, last_good_state, target).cs
           /\ last_good_state' = set_state(current_state, last_good_state, target).lg
    /\ pc' = "loop"
    /\ UNCHANGED << attachVars, sendVars, raceVars, current_attachment_step, semVars, posVars, sat_valid,
                    tleVars, recVars, predVars, uptime, envVars >>

\* STATE_ATTEMPTING_CONNECTION_STEP1, lines 805-813:
\* configure_nordic_for_sateliot() fails
Step1ConfigFails ==
    /\ pc = "loop"
    /\ current_state = STATE_ATTEMPTING_CONNECTION_STEP1
    /\ current_attachment_step' = ATTACH_STEP_1
    /\ err' = "ECFG"
    /\ current_state' = set_state(current_state, last_good_state, STATE_ERROR).cs
    /\ last_good_state' = set_state(current_state, last_good_state, STATE_ERROR).lg
    /\ sinceFeed' = LOOP_PAUSE_MS
    /\ osc' = 0
    /\ UNCHANGED << at_lat, sendVars, raceVars, pc, semVars, posVars, sat_valid, tleVars,
                    recVars, predVars, uptime, envVars >>

\* STATE_ATTEMPTING_CONNECTION_STEP1, lines 805-814, and
\* modem_configure_for_sateliot_attachment, lines 586-587: the configuration
\* succeeds and lat_param is computed from config.device_lat.  The position
\* is written by gnss_event_handler, which can run before the next read.
Step1ReadPosition ==
    /\ pc = "loop"
    /\ current_state = STATE_ATTEMPTING_CONNECTION_STEP1
    /\ current_attachment_step' = ATTACH_STEP_1
    /\ err' = "OK"
    /\ at_lat' = IF gps_coordinates_valid THEN device_lat ELSE NoCoord
    /\ sinceFeed' = 0
    /\ pc' = "s1_cfg"
    /\ UNCHANGED << osc, sendVars, raceVars, current_state, semVars, posVars, sat_valid,
                    tleVars, recVars, last_good_state, predVars, uptime, envVars >>

\* modem_configure_for_sateliot_attachment, lines 588-596: lon_param is
\* computed from config.device_lon and AT%XSETGPSPOS is sent; then
\* lte_lc_connect_async of line 817, and the wait begins
Step1Connect ==
    /\ pc = "s1_cfg"
    /\ at_lat' = NoCoord
    /\ modemOnline' = TRUE
    /\ sigFresh' = FALSE
    /\ pc' = "s1_wait"
    /\ UNCHANGED << osc, sendVars, raceVars, current_state, current_attachment_step,
                    semVars, err, posVars, sat_valid, tleVars, recVars,
                    last_good_state, predVars, uptime, sinceFeed, gnssRunning >>

\* k_sem_take(&lte_connected_sem, K_MINUTES(5)) returns 0, lines 825-829
Step1Registered ==
    /\ pc = "s1_wait"
    /\ lte_connected_sem = 1
    /\ lte_connected_sem' = 0
    /\ err' = "OK"
    /\ \E e \in WaitElapsed(STEP1_TIMEOUT_MS) : sinceFeed' = sinceFeed + e + LOOP_PAUSE_MS
    /\ current_state' = set_state(current_state, last_good_state, STATE_SENDING_DATA).cs
    /\ last_good_state' = set_state(current_state, last_good_state, STATE_SENDING_DATA).lg
    /\ osc' = 0
    /\ pc' = "loop"
    /\ UNCHANGED << at_lat, sendVars, raceVars, current_attachment_step, gps_fix_sem,
                    posVars, sat_valid, tleVars, recVars, predVars, uptime, envVars >>

\* the timeout of Step 1 sending the machine to STATE_ERROR
step1_timeout_target_error == STATE_ERROR

\* the state the timeout of Step 1 leads to, line 824
step1_timeout_target == STATE_ATTEMPTING_CONNECTION_STEP2

\* k_sem_take(&lte_connected_sem, K_MINUTES(5)) times out, lines 821-824
Step1Timeout ==
    /\ pc = "s1_wait"
    /\ lte_connected_sem = 0
    /\ err' = "EAGAIN"
    /\ current_attachment_step' = ATTACH_STEP_2
    /\ sinceFeed' = sinceFeed + STEP1_TIMEOUT_MS + LOOP_PAUSE_MS
    /\ current_state' = set_state(current_state, last_good_state, step1_timeout_target).cs
    /\ last_good_state' = set_state(current_state, last_good_state, step1_timeout_target).lg
    /\ pc' = "loop"
    /\ UNCHANGED << attachVars, sendVars, raceVars, semVars, posVars, sat_valid, tleVars, recVars, predVars,
                    uptime, envVars >>

\* STATE_ATTEMPTING_CONNECTION_STEP2, lines 833-838: the settle delay
Step2Settle ==
    /\ pc = "loop"
    /\ current_state = STATE_ATTEMPTING_CONNECTION_STEP2
    /\ current_attachment_step' = ATTACH_STEP_2
    /\ sinceFeed' = STEP2_SETTLE_MS
    /\ pc' = "s2_settle"
    /\ UNCHANGED << attachVars, sendVars, raceVars, current_state, semVars, err, posVars, sat_valid, tleVars, recVars,
                    last_good_state, predVars, uptime, envVars >>

\* lte_lc_connect_async of line 840, then the wait begins
Step2Connect ==
    /\ pc = "s2_settle"
    /\ modemOnline' = TRUE
    /\ sigFresh' = FALSE
    /\ pc' = "s2_wait"
    /\ UNCHANGED << attachVars, sendVars, raceVars, current_state, current_attachment_step, semVars, err, posVars,
                    sat_valid, tleVars, recVars, last_good_state, predVars, uptime,
                    sinceFeed, gnssRunning >>

\* k_sem_take(&lte_connected_sem, K_MINUTES(15)) returns 0, lines 849-851
Step2Registered ==
    /\ pc = "s2_wait"
    /\ lte_connected_sem = 1
    /\ lte_connected_sem' = 0
    /\ err' = "OK"
    /\ \E e \in WaitElapsed(STEP2_TIMEOUT_MS) : sinceFeed' = sinceFeed + e + LOOP_PAUSE_MS
    /\ current_state' = set_state(current_state, last_good_state, STATE_SENDING_DATA).cs
    /\ last_good_state' = set_state(current_state, last_good_state, STATE_SENDING_DATA).lg
    /\ osc' = 0
    /\ pc' = "loop"
    /\ UNCHANGED << at_lat, sendVars, raceVars, current_attachment_step, gps_fix_sem,
                    posVars, sat_valid, tleVars, recVars, predVars, uptime, envVars >>

\* the timeout of Step 2 ending the attachment
step2_timeout_target_idle == STATE_IDLE

\* the state the timeout of Step 2 leads to, line 848
step2_timeout_target == STATE_ATTEMPTING_CONNECTION_STEP1

\* k_sem_take(&lte_connected_sem, K_MINUTES(15)) times out, lines 844-848
Step2Timeout ==
    /\ pc = "s2_wait"
    /\ lte_connected_sem = 0
    /\ err' = "EAGAIN"
    /\ modemOnline' = FALSE
    /\ current_attachment_step' = ATTACH_STEP_1
    /\ sinceFeed' = sinceFeed + STEP2_TIMEOUT_MS + LOOP_PAUSE_MS
    /\ current_state' = set_state(current_state, last_good_state, step2_timeout_target).cs
    /\ last_good_state' = set_state(current_state, last_good_state, step2_timeout_target).lg
    /\ osc' = Min(osc + 1, MaxOsc)
    /\ pc' = "loop"
    /\ UNCHANGED << at_lat, sendVars, raceVars, semVars, posVars, sat_valid, tleVars,
                    recVars, predVars, uptime, gnssRunning, sigFresh >>

\* validate_buffer_safety without the safety margin
validate_buffer_safety_no_margin(size, required_size) ==
    ~(size < required_size)

\* validate_buffer_safety(buffer_size, required_size), lines 185-192
validate_buffer_safety(size, required_size) ==
    ~(size < required_size + TELEMETRY_SAFETY_MARGIN)

\* format_telemetry_data gets as far as snprintf (lines 603-625)
format_reaches_snprintf(buffer_null, size) ==
    /\ ~(buffer_null \/ size = 0)
    /\ validate_buffer_safety(size, MIN_BUFFER_SIZE_TELEMETRY)
    /\ ~(size < TELEMETRY_ESTIMATED_SIZE + TELEMETRY_SAFETY_MARGIN)

\* format_telemetry_data accepting a rendered length equal to the capacity
format_telemetry_data_gt(buffer_null, size, rendered) ==
    IF buffer_null \/ size = 0 THEN "EINVAL"
    ELSE IF ~validate_buffer_safety(size, MIN_BUFFER_SIZE_TELEMETRY) THEN "ENOMEM"
    ELSE IF size < TELEMETRY_ESTIMATED_SIZE + TELEMETRY_SAFETY_MARGIN THEN "ENOMEM"
    ELSE IF rendered < 0 THEN "EFAULT"
    ELSE IF rendered > size THEN "ENOMEM"
    ELSE IF rendered < TELEMETRY_SANITY_FLOOR THEN "EFAULT"
    ELSE "OK"

\* format_telemetry_data(buffer, buffer_size): its result when snprintf
\* returns rendered (lines 603-653)
format_telemetry_data(buffer_null, size, rendered) ==
    IF buffer_null \/ size = 0 THEN "EINVAL"
    ELSE IF ~validate_buffer_safety(size, MIN_BUFFER_SIZE_TELEMETRY) THEN "ENOMEM"
    ELSE IF size < TELEMETRY_ESTIMATED_SIZE + TELEMETRY_SAFETY_MARGIN THEN "ENOMEM"
    ELSE IF rendered < 0 THEN "EFAULT"
    ELSE IF rendered >= size THEN "ENOMEM"
    ELSE IF rendered < TELEMETRY_SANITY_FLOOR THEN "EFAULT"
    ELSE "OK"

\* what the buffer holds after format_telemetry_data: the old record when
\* the function returns before snprintf, otherwise what snprintf left, which
\* is the record cut to size - 1 characters (line 627)
telemetry_payload_after(old, buffer_null, size, rendered) ==
    IF ~format_reaches_snprintf(buffer_null, size) THEN old
    ELSE IF rendered < 0 THEN PayloadIndeterminate
    ELSE Min(rendered, size - 1)

\* the transport called whatever the encoder returned
transport_invoked_always(fmt) == TRUE

\* robust_data_send is called only when format_telemetry_data returned 0
\* (line 855)
transport_invoked(fmt) == fmt = "OK"

\* STATE_SENDING_DATA, line 855: format_telemetry_data(payload_buffer,
\* PAYLOAD_BUFFER_SIZE)
SendFormat ==
    /\ pc = "loop"
    /\ current_state = STATE_SENDING_DATA
    /\ \E rendered \in RenderedSamples :
         /\ fmt_ret' = format_telemetry_data(FALSE, PAYLOAD_BUFFER_SIZE, rendered)
         /\ fmt_len' = IF format_reaches_snprintf(FALSE, PAYLOAD_BUFFER_SIZE)
                       THEN rendered ELSE NoValue
         /\ payload_len' = telemetry_payload_after(payload_len, FALSE,
                                                   PAYLOAD_BUFFER_SIZE, rendered)
    /\ sinceFeed' = 0
    /\ pc' = "send_tx"
    /\ UNCHANGED << attachVars, raceVars, buffer_size, send_outcomes, tx_ret, send_attempts,
                    current_state, current_attachment_step, semVars, err, posVars,
                    sat_valid, tleVars, recVars, last_good_state, predVars, uptime,
                    envVars >>

\* STATE_SENDING_DATA, lines 855-859: robust_data_send(payload_buffer), or
\* the log of the encoding failure
SendTransport ==
    /\ pc = "send_tx"
    /\ IF transport_invoked(fmt_ret)
       THEN \E outcomes \in SendOutcomes :
              LET snd == robust_data_send(outcomes, 0, 0)
              IN  /\ send_outcomes' = outcomes
                  /\ tx_ret' = snd.ret
                  /\ send_attempts' = snd.attempts
                  /\ sinceFeed' = sinceFeed + snd.slept
       ELSE /\ tx_ret' = "skipped"
            /\ UNCHANGED << send_outcomes, send_attempts, sinceFeed >>
    /\ pc' = "send_done"
    /\ UNCHANGED << attachVars, raceVars, payload_len, buffer_size, fmt_ret, fmt_len,
                    current_state, current_attachment_step, semVars, err, posVars,
                    sat_valid, tleVars, recVars, last_good_state, predVars, uptime,
                    envVars >>

\* STATE_SENDING_DATA, lines 860-863: lte_lc_offline and set_state(STATE_IDLE);
\* the results of the encoder and of the transport are dropped
SendData ==
    /\ pc = "send_done"
    /\ modemOnline' = FALSE
    /\ current_state' = set_state(current_state, last_good_state, STATE_IDLE).cs
    /\ last_good_state' = set_state(current_state, last_good_state, STATE_IDLE).lg
    /\ fmt_ret' = "none"
    /\ fmt_len' = NoValue
    /\ send_outcomes' = << >>
    /\ tx_ret' = "none"
    /\ send_attempts' = 0
    /\ sinceFeed' = sinceFeed + LOOP_PAUSE_MS
    /\ pc' = "loop"
    /\ UNCHANGED << attachVars, raceVars, payload_len, buffer_size, current_attachment_step,
                    semVars, err, posVars, sat_valid, tleVars, recVars, predVars,
                    uptime, gnssRunning, sigFresh >>

\* STATE_ERROR, lines 882-885
ErrorToRecovery ==
    /\ pc = "loop"
    /\ current_state = STATE_ERROR
    /\ current_state' = set_state(current_state, last_good_state, STATE_RECOVERY).cs
    /\ last_good_state' = set_state(current_state, last_good_state, STATE_RECOVERY).lg
    /\ sinceFeed' = LOOP_PAUSE_MS
    /\ UNCHANGED << attachVars, sendVars, raceVars, pc, current_attachment_step, semVars, err, posVars, sat_valid,
                    tleVars, recVars, predVars, uptime, envVars >>

\* STATE_RECOVERY, line 868 and attempt_error_recovery line 196: the call
\* with config.recovery.last_good_state and the load of the counter by
\* recovery_attempts++.  The counter is a plain int that lte_handler writes
\* from another thread, so the load and the store of the increment are two
\* steps.
RecoveryEnter ==
    /\ pc = "loop"
    /\ current_state = STATE_RECOVERY
    /\ error_state' = last_good_state
    /\ inc_tmp' = recovery_attempts
    /\ regSinceInvoke' = FALSE
    /\ streak' = IF streak > 0 THEN Min(streak + 1, MAX_ERROR_RECOVERY_ATTEMPTS + 1)
                 ELSE IF recovery_attempts = 0 THEN 1 ELSE 0
    /\ level' = "pending"
    /\ sinceFeed' = 0
    /\ pc' = "rec_inc"
    /\ UNCHANGED << attachVars, sendVars, recovery_attempts, current_state, current_attachment_step,
                    semVars, err, posVars, sat_valid, tleVars, last_good_state,
                    predVars, uptime, envVars >>

\* attempt_error_recovery lines 196-200: the store of recovery_attempts++
RecoveryStore ==
    /\ pc = "rec_inc"
    /\ recovery_attempts' = inc_tmp + 1
    /\ inc_tmp' = NoValue
    /\ pc' = "rec_select"
    /\ UNCHANGED << attachVars, sendVars, regSinceInvoke, current_state, current_attachment_step,
                    semVars, err, posVars, sat_valid, tleVars, last_good_state,
                    error_state, streak, level, predVars, uptime, sinceFeed, envVars >>

\* attempt_error_recovery with the first two levels exchanged
attempt_error_recovery_swapped(attempts, cfg) ==
    IF attempts > MAX_ERROR_RECOVERY_ATTEMPTS
    THEN [ ret |-> "EFAULT", level |-> "capped", attempts |-> 0, slept |-> 0,
           offline |-> FALSE, reinit |-> FALSE ]
    ELSE IF attempts = 2
    THEN [ ret |-> "OK", level |-> "1", attempts |-> attempts,
           slept |-> RECOVERY_SOFT_SLEEP_MS, offline |-> TRUE, reinit |-> FALSE ]
    ELSE IF attempts = 1
    THEN [ ret |-> cfg, level |-> "2", attempts |-> attempts,
           slept |-> RECOVERY_HARD_SLEEP_MS, offline |-> TRUE, reinit |-> FALSE ]
    ELSE [ ret |-> cfg, level |-> "3", attempts |-> 0, slept |-> 0,
           offline |-> FALSE, reinit |-> TRUE ]

\* attempt_error_recovery lines 202-237: the branch taken for the counter
\* value attempts when configure_nordic_for_sateliot() returns cfg.  Levels 1
\* and 2 take the modem off the network (lte_lc_offline, AT+CFUN=15); level 3
\* is the else branch, so it also runs for a counter the handler has zeroed.
attempt_error_recovery(attempts, cfg) ==
    IF attempts > MAX_ERROR_RECOVERY_ATTEMPTS
    THEN [ ret |-> "EFAULT", level |-> "capped", attempts |-> 0, slept |-> 0,
           offline |-> FALSE, reinit |-> FALSE ]
    ELSE IF attempts = 1
    THEN [ ret |-> "OK", level |-> "1", attempts |-> attempts,
           slept |-> RECOVERY_SOFT_SLEEP_MS, offline |-> TRUE, reinit |-> FALSE ]
    ELSE IF attempts = 2
    THEN [ ret |-> cfg, level |-> "2", attempts |-> attempts,
           slept |-> RECOVERY_HARD_SLEEP_MS, offline |-> TRUE, reinit |-> FALSE ]
    ELSE [ ret |-> cfg, level |-> "3", attempts |-> 0, slept |-> 0,
           offline |-> FALSE, reinit |-> TRUE ]

\* initialize_sateliot_config leaving last_good_state as it was
recovery_last_good_kept(reinit, lg) == lg

\* config.recovery.last_good_state when attempt_error_recovery returns: level
\* 3 has run initialize_sateliot_config, which sets it to STATE_IDLE (line 357)
recovery_last_good(reinit, lg) ==
    IF reinit THEN STATE_IDLE ELSE lg

\* a partial recovery sent back to the fix wait
recovery_target_gps(ret, lg) ==
    IF ret = "OK" THEN lg ELSE STATE_GETTING_GPS_FIX

\* STATE_RECOVERY, lines 869-879: the state after the escalator returned ret
\* with config.recovery.last_good_state at lg
recovery_target(ret, lg) ==
    IF ret = "OK" THEN lg ELSE STATE_IDLE

\* the rest of attempt_error_recovery and of STATE_RECOVERY, lines 202-237
\* and 869-880.  Level 3 runs initialize_sateliot_config(), which rewrites
\* the position, the tle_config and the recovery fields.
RecoverySelect ==
    /\ pc = "rec_select"
    /\ \E cfg \in ConfigureResults :
         LET r == attempt_error_recovery(recovery_attempts, cfg)
             lg == recovery_last_good(r.reinit, last_good_state)
             target == recovery_target(r.ret, lg)
             cooldown == IF r.ret # "OK" /\ r.ret # "EFAULT"
                         THEN RECOVERY_PARTIAL_SLEEP_MS ELSE 0
         IN  /\ err' = r.ret
             /\ level' = r.level
             /\ recovery_attempts' = r.attempts
             /\ modemOnline' = IF r.offline THEN FALSE ELSE modemOnline
             /\ current_attachment_step' =
                    IF r.reinit THEN ATTACH_STEP_1 ELSE current_attachment_step
             /\ gps_coordinates_valid' = IF r.reinit THEN FALSE ELSE gps_coordinates_valid
             /\ device_lat' = IF r.reinit THEN 0 ELSE device_lat
             /\ device_lon' = IF r.reinit THEN 0 ELSE device_lon
             /\ update_needed' = IF r.reinit THEN TRUE ELSE update_needed
             /\ last_update_time' = IF r.reinit THEN 0 ELSE last_update_time
             /\ update_interval_hours' =
                    IF r.reinit THEN TLE_UPDATE_INTERVAL_HOURS ELSE update_interval_hours
             /\ consecutive_failures' = IF r.reinit THEN 0 ELSE consecutive_failures
             /\ sat_valid' = IF r.reinit THEN InitialSatValid ELSE sat_valid
             /\ current_state' = set_state(current_state, lg, target).cs
             /\ last_good_state' = set_state(current_state, lg, target).lg
             /\ sinceFeed' = sinceFeed + r.slept + cooldown + LOOP_PAUSE_MS
    /\ pc' = "loop"
    /\ UNCHANGED << attachVars, sendVars, raceVars, semVars, error_state, streak, predVars, uptime, gnssRunning, sigFresh >>

\* ------------------------------------------------------------------------
\*  The asynchronous handlers
\* ------------------------------------------------------------------------

\* lte_handler, LTE_LC_EVT_NW_REG_STATUS with registered home or roaming
\* (lines 560-569); the modem raises it while a connect request stands
LteRegistered ==
    /\ modemOnline
    /\ current_attachment_step' = ATTACH_COMPLETE
    /\ recovery_attempts' = 0
    /\ lte_connected_sem' = 1
    /\ sigFresh' = TRUE
    /\ streak' = 0
    /\ regSinceInvoke' = TRUE
    /\ UNCHANGED << attachVars, sendVars, inc_tmp, pc, current_state, gps_fix_sem, err, posVars, sat_valid, tleVars,
                    last_good_state, error_state, level, predVars, uptime, sinceFeed,
                    modemOnline, gnssRunning >>

\* gnss_event_handler, NRF_MODEM_GNSS_EVT_PVT with a valid fix (lines
\* 528-534), and update_device_coordinates (lines 508-512)
GnssFix ==
    /\ gnssRunning
    /\ \E lat \in Lats : (device_lat' = lat /\ device_lon' = FixLon(lat))
    /\ gps_coordinates_valid' = TRUE
    /\ gps_fix_sem' = 1
    /\ UNCHANGED << attachVars, sendVars, raceVars, pc, current_state, current_attachment_step, lte_connected_sem, err,
                    sat_valid, tleVars, recVars, last_good_state, predVars, uptime,
                    sinceFeed, envVars >>

Next ==
    \/ InitConfig
    \/ SetupWatchdog
    \/ SetupWatchdogFails
    \/ InitModem
    \/ InitGnss
    \/ StartupFinish
    \/ IdleToTleUpdate
    \/ IdleSleepUntilPass
    \/ IdlePoll
    \/ TleUpdate
    \/ GpsWaitBegin
    \/ GpsFixSignalled
    \/ GpsFixTimeout
    \/ Step1ConfigFails
    \/ Step1ReadPosition
    \/ Step1Connect
    \/ Step1Registered
    \/ Step1Timeout
    \/ Step2Settle
    \/ Step2Connect
    \/ Step2Registered
    \/ Step2Timeout
    \/ SendFormat
    \/ SendTransport
    \/ SendData
    \/ ErrorToRecovery
    \/ RecoveryEnter
    \/ RecoveryStore
    \/ RecoverySelect
    \/ LteRegistered
    \/ GnssFix

Spec == Init /\ [][Next]_vars

\* ------------------------------------------------------------------------
\*  The predictor on its own: any position, any clock value, any pass the
\*  caller holds
\* ------------------------------------------------------------------------

\* a pass an earlier cycle has left in the caller's struct
PriorPass ==
    [ start_time |-> morning_pass_start, end_time |-> morning_pass_start + 60000,
      max_elevation |-> 45, satellite_id |-> 2, is_predicted |-> TRUE ]

InitPredictor ==
    /\ pc = "predictor"
    /\ current_state = STATE_IDLE
    /\ current_attachment_step = ATTACH_STEP_1
    /\ lte_connected_sem = 0
    /\ gps_fix_sem = 0
    /\ err = "OK"
    /\ gps_coordinates_valid \in BOOLEAN
    /\ device_lat \in Lats
    /\ device_lon = FixLon(device_lat)
    /\ sat_valid = InitialSatValid
    /\ update_needed = FALSE
    /\ last_update_time = 0
    /\ update_interval_hours = TLE_UPDATE_INTERVAL_HOURS
    /\ consecutive_failures = 0
    /\ recovery_attempts = 0
    /\ last_good_state = STATE_IDLE
    /\ error_state = STATE_INIT
    /\ next_pass \in { NoPass, PriorPass }
    /\ pred_ret = "OK"
    /\ query_time = NoTime
    /\ uptime \in Times
    /\ sinceFeed = 0
    /\ modemOnline = FALSE
    /\ gnssRunning = FALSE
    /\ sigFresh = FALSE
    /\ streak = 0
    /\ level = "none"
    /\ inc_tmp = NoValue
    /\ regSinceInvoke = FALSE
    /\ payload_len = 0
    /\ buffer_size = PAYLOAD_BUFFER_SIZE
    /\ fmt_ret = "none"
    /\ fmt_len = NoValue
    /\ send_outcomes = << >>
    /\ tx_ret = "none"
    /\ send_attempts = 0
    /\ at_lat = NoCoord
    /\ osc = 0

\* one call calculate_sateliot_satellite_pass(&next_pass, config.device_lat, ..)
CallPredictor ==
    /\ pc = "predictor"
    /\ \E t \in Times, r_dur \in RandSamples, r_el, r_sat \in RandSmall :
         /\ t >= uptime
         /\ LET res == calculate_sateliot_satellite_pass(next_pass, FALSE,
                           gps_coordinates_valid, device_lat, t, r_dur, r_el, r_sat)
            IN  /\ next_pass' = res.pass
                /\ pred_ret' = res.ret
                /\ query_time' = res.time
                /\ uptime' = IF res.time = NoTime THEN uptime ELSE t
    /\ UNCHANGED << attachVars, sendVars, raceVars, pc, current_state, current_attachment_step, semVars, err, posVars,
                    sat_valid, tleVars, recVars, last_good_state, sinceFeed, envVars >>

NextPredictor == CallPredictor

SpecPredictor == InitPredictor /\ [][NextPredictor]_vars

\* ------------------------------------------------------------------------
\*  Properties
\* ------------------------------------------------------------------------

\* C1: whenever current_state leaves STATE_ERROR, the state it takes next is
\* STATE_RECOVERY, also when STATE_ERROR was set by a failure of the
\* initialization sequence.
C1_ErrorIsFollowedByRecovery ==
    [][ (current_state = STATE_ERROR /\ current_state' # STATE_ERROR)
          => current_state' = STATE_RECOVERY ]_vars

\* C2: the fourth escalator invocation in a row, counted from a counter of 0
\* with no registration event in between, returns -EFAULT and leaves the
\* counter at 0.
C2_FourthInvocationIsCapped ==
    [][ (pc = "rec_select" /\ pc' = "loop" /\ streak = MAX_ERROR_RECOVERY_ATTEMPTS + 1)
          => (err' = "EFAULT" /\ recovery_attempts' = 0) ]_vars

\* C3: a registration wait of Step 1 or Step 2 returns 0 only if a
\* registration event was raised after the connect request of that phase.
C3_WaitConsumesOnlyFreshSignal ==
    [][ (pc \in { "s1_wait", "s2_wait" } /\ pc' = "loop" /\ err' = "OK")
          => sigFresh ]_vars

\* C4: the loop never blocks for the watchdog window (60 s) or longer
\* between two wdt_feed calls.
C4_FeedGapBelowWindow == sinceFeed < WDT_WINDOW_MAX_MS

\* C5: main() never reaches a wait without a timeout: no path, the
\* initialization failures included, ends in k_sleep(K_FOREVER).
C5_NeverBlocksForever == pc # "halted"

\* C6: when the Step 1 wait ends, a timeout (no signal on the semaphore)
\* leads to Step 2 and a signal leads to STATE_SENDING_DATA, never to
\* STATE_ERROR or STATE_RECOVERY; STATE_ERROR is entered from Step 1 only by
\* the failed configuration, before any connect request of that pass.
C6_Step1WaitOutcome ==
    [][ /\ (pc = "s1_wait" /\ pc' # "s1_wait")
             => /\ lte_connected_sem = 0
                     => current_state' = STATE_ATTEMPTING_CONNECTION_STEP2
                /\ lte_connected_sem = 1 => current_state' = STATE_SENDING_DATA
                /\ current_state' \notin { STATE_ERROR, STATE_RECOVERY }
        /\ (current_state = STATE_ATTEMPTING_CONNECTION_STEP1 /\ current_state' = STATE_ERROR)
             => (pc = "loop" /\ pc' = "loop" /\ err' = "ECFG" /\ UNCHANGED envVars) ]_vars

\* C6 witness: the Step 1 wait has timed out and the machine is in Step 2
C6_Witness ==
    /\ pc = "loop"
    /\ current_state = STATE_ATTEMPTING_CONNECTION_STEP2
    /\ last_good_state = STATE_ATTEMPTING_CONNECTION_STEP1
    /\ err = "EAGAIN"
    /\ sinceFeed = STEP1_TIMEOUT_MS + LOOP_PAUSE_MS

\* C7: when the escalator returns 0, the state main() resumes is the state
\* that was handed to the escalator, at every escalation level.
C7_ResumesHandedState ==
    [][ (pc = "rec_select" /\ pc' = "loop" /\ err' = "OK")
          => current_state' = error_state ]_vars

\* C8: every pass the predictor returns has end_time > start_time and a
\* duration within [MIN_SATELLITE_PASS_DURATION_MS, MAX_SATELLITE_PASS_DURATION_MS].
C8_PassDurationWithinBounds ==
    (pred_ret = "OK" /\ query_time # NoTime)
      => /\ next_pass.end_time > next_pass.start_time
         /\ next_pass.end_time - next_pass.start_time >= MIN_SATELLITE_PASS_DURATION_MS
         /\ next_pass.end_time - next_pass.start_time <= MAX_SATELLITE_PASS_DURATION_MS

\* the instants at which a service window starts, 10:00 and 21:00 of each day
WindowStarts ==
    { d * DAY_MS + w : d \in 0..(MaxDays + 1), w \in { morning_pass_start, evening_pass_start } }

\* C9: start_time is the earliest window start strictly later than the query
\* time, so it is never in the past and at most 13 h ahead.
C9_StartIsNextWindow ==
    (pred_ret = "OK" /\ query_time # NoTime)
      => /\ next_pass.start_time \in WindowStarts
         /\ next_pass.start_time > query_time
         /\ \A w \in WindowStarts : w > query_time => w >= next_pass.start_time
         /\ next_pass.start_time - query_time <= 13 * HOUR_MS

\* C9 witness: a query at 21:00 sharp gets the window of the next morning
C9_Witness ==
    /\ pred_ret = "OK"
    /\ query_time # NoTime
    /\ query_time % DAY_MS = evening_pass_start
    /\ next_pass.start_time - query_time = 13 * HOUR_MS

\* C10: with an invalid position the predictor returns -ENODATA, reads no
\* clock and leaves the caller's pass as it was.
C10_NoDataWhenInvalid ==
    [][ (pc = "predictor" /\ ~gps_coordinates_valid)
          => /\ pred_ret' = "ENODATA"
             /\ next_pass' = next_pass
             /\ query_time' = NoTime
             /\ uptime' = uptime ]_vars

\* C10 witness: the call with an invalid position has returned and the
\* caller still holds the pass of the earlier cycle
C10_Witness ==
    /\ pc = "predictor"
    /\ ~gps_coordinates_valid
    /\ pred_ret = "ENODATA"
    /\ next_pass = PriorPass

\* ------------------------------------------------------------------------
\*  format_telemetry_data on its own: any capacity, any snprintf result
\* ------------------------------------------------------------------------

InitEncoder ==
    /\ pc = "encoder"
    /\ current_state = STATE_IDLE
    /\ current_attachment_step = ATTACH_STEP_1
    /\ lte_connected_sem = 0
    /\ gps_fix_sem = 0
    /\ err = "OK"
    /\ gps_coordinates_valid = FALSE
    /\ device_lat = 0
    /\ device_lon = 0
    /\ sat_valid = InitialSatValid
    /\ update_needed = FALSE
    /\ last_update_time = 0
    /\ update_interval_hours = TLE_UPDATE_INTERVAL_HOURS
    /\ consecutive_failures = 0
    /\ recovery_attempts = 0
    /\ last_good_state = STATE_IDLE
    /\ error_state = STATE_INIT
    /\ next_pass = NoPass
    /\ pred_ret = "OK"
    /\ query_time = NoTime
    /\ uptime = 0
    /\ sinceFeed = 0
    /\ modemOnline = FALSE
    /\ gnssRunning = FALSE
    /\ sigFresh = FALSE
    /\ streak = 0
    /\ level = "none"
    /\ inc_tmp = NoValue
    /\ regSinceInvoke = FALSE
    /\ payload_len \in { 0, StalePayload }
    /\ buffer_size \in Capacities
    /\ fmt_ret = "none"
    /\ fmt_len = NoValue
    /\ send_outcomes = << >>
    /\ tx_ret = "none"
    /\ send_attempts = 0
    /\ at_lat = NoCoord
    /\ osc = 0

\* one call format_telemetry_data(buffer, buffer_size) with a buffer that is
\* not NULL
CallEncoder ==
    /\ pc = "encoder"
    /\ \E rendered \in EncoderRendered :
         /\ fmt_ret' = format_telemetry_data(FALSE, buffer_size, rendered)
         /\ fmt_len' = IF format_reaches_snprintf(FALSE, buffer_size)
                       THEN rendered ELSE NoValue
         /\ payload_len' = telemetry_payload_after(payload_len, FALSE,
                                                   buffer_size, rendered)
    /\ UNCHANGED << attachVars, raceVars, buffer_size, send_outcomes, tx_ret, send_attempts,
                    pc, current_state, current_attachment_step, semVars, err,
                    posVars, sat_valid, tleVars, recVars, last_good_state,
                    predVars, uptime, sinceFeed, envVars >>

NextEncoder == CallEncoder

SpecEncoder == InitEncoder /\ [][NextEncoder]_vars

\* C11 as stated: for every capacity c with 0 <= c < 160 the encoder returns
\* BufferTooSmall (-ENOMEM), c = 0 included, and leaves the buffer as it was.
C11_SmallCapacityIsTooSmall ==
    [][(pc = "encoder" /\ buffer_size < 160)
        => (fmt_ret' = "ENOMEM" /\ payload_len' = payload_len)]_vars

\* C11 amended: for every capacity c with 0 < c < 160 the encoder returns
\* BufferTooSmall (-ENOMEM), for c = 0 it returns the invalid-parameter error
\* (-EINVAL); in both cases snprintf is not reached and the buffer is left as
\* it was.
C11_SmallCapacityRefused ==
    [][(pc = "encoder" /\ buffer_size < 160)
        => /\ payload_len' = payload_len
           /\ fmt_len' = NoValue
           /\ (buffer_size = 0 => fmt_ret' = "EINVAL")
           /\ (buffer_size > 0 => fmt_ret' = "ENOMEM")]_vars

\* a capacity of 159 was refused and the record of an earlier cycle is intact
C11_Witness ==
    /\ pc = "encoder"
    /\ buffer_size = 159
    /\ fmt_ret = "ENOMEM"
    /\ payload_len = StalePayload

\* C12: whenever the encoder returns success, the rendered length L has
\* 50 <= L < capacity; a rendered length >= capacity or < 50 never returns
\* success.
C12_SuccessLengthInRange ==
    pc = "encoder" =>
        /\ fmt_ret = "OK" => (fmt_len >= 50 /\ fmt_len < buffer_size)
        /\ (fmt_len # NoValue /\ (fmt_len >= buffer_size \/ fmt_len < 50))
               => fmt_ret \in { "ENOMEM", "EFAULT" }

\* a record of capacity - 1 characters was accepted
C12_Witness ==
    /\ pc = "encoder"
    /\ fmt_ret = "OK"
    /\ fmt_len = buffer_size - 1
    /\ payload_len = fmt_len

\* ------------------------------------------------------------------------
\*  robust_data_send on its own: any answers of the network
\* ------------------------------------------------------------------------

InitSend ==
    /\ pc = "sender"
    /\ current_state = STATE_IDLE
    /\ current_attachment_step = ATTACH_STEP_1
    /\ lte_connected_sem = 0
    /\ gps_fix_sem = 0
    /\ err = "OK"
    /\ gps_coordinates_valid = FALSE
    /\ device_lat = 0
    /\ device_lon = 0
    /\ sat_valid = InitialSatValid
    /\ update_needed = FALSE
    /\ last_update_time = 0
    /\ update_interval_hours = TLE_UPDATE_INTERVAL_HOURS
    /\ consecutive_failures = 0
    /\ recovery_attempts = 0
    /\ last_good_state = STATE_IDLE
    /\ error_state = STATE_INIT
    /\ next_pass = NoPass
    /\ pred_ret = "OK"
    /\ query_time = NoTime
    /\ uptime = 0
    /\ sinceFeed = 0
    /\ modemOnline = FALSE
    /\ gnssRunning = FALSE
    /\ sigFresh = FALSE
    /\ streak = 0
    /\ level = "none"
    /\ inc_tmp = NoValue
    /\ regSinceInvoke = FALSE
    /\ payload_len \in { 74, 255 }
    /\ buffer_size = PAYLOAD_BUFFER_SIZE
    /\ fmt_ret = "none"
    /\ fmt_len = NoValue
    /\ send_outcomes \in AllSendOutcomes
    /\ tx_ret = "none"
    /\ send_attempts = 0
    /\ at_lat = NoCoord
    /\ osc = 0

\* one call robust_data_send(payload_buffer)
CallSend ==
    /\ pc = "sender"
    /\ tx_ret = "none"
    /\ LET snd == robust_data_send(send_outcomes, 0, 0)
       IN  /\ tx_ret' = snd.ret
           /\ send_attempts' = snd.attempts
           /\ sinceFeed' = snd.slept
    /\ UNCHANGED << attachVars, raceVars, payload_len, buffer_size, fmt_ret, fmt_len,
                    send_outcomes, pc, current_state, current_attachment_step,
                    semVars, err, posVars, sat_valid, tleVars, recVars,
                    last_good_state, predVars, uptime, envVars >>

NextSend == CallSend

SpecSend == InitSend /\ [][NextSend]_vars

\* C18: robust_data_send ends after at most 3 attempts, socket failures and
\* sendto failures counted together; it returns 0 at the first attempt that
\* sends, with no attempt after it, and returns -EIO if and only if all 3
\* attempts failed.
C18_AtMostThreeAttempts ==
    (pc = "sender" /\ tx_ret # "none") =>
        LET sends(i) == send_outcomes[i] = "sent"
        IN  /\ send_attempts >= 1
            /\ send_attempts <= 3
            /\ tx_ret \in { "OK", "EIO" }
            /\ tx_ret = "OK" <=> \E i \in 1..3 : sends(i)
            /\ tx_ret = "OK" => /\ sends(send_attempts)
                                /\ \A j \in 1..(send_attempts - 1) : ~sends(j)
            /\ tx_ret = "EIO" <=> \A i \in 1..3 : ~sends(i)
            /\ tx_ret = "EIO" => send_attempts = 3

\* three attempts failed and a fourth, which would have sent, was not made
C18_Witness ==
    /\ pc = "sender"
    /\ tx_ret = "EIO"
    /\ send_attempts = 3
    /\ send_outcomes[1] = "sock_fail"
    /\ send_outcomes[2] = "send_fail"
    /\ send_outcomes[4] = "sent"

\* ------------------------------------------------------------------------
\*  update_sateliot_tles on its own: any bookkeeping, any slot validity
\* ------------------------------------------------------------------------

\* every slot of the constellation valid
AllSatValid == [ i \in 0..3 |-> TRUE ]

InitTle ==
    /\ pc = "tle"
    /\ current_state = STATE_TLE_UPDATE
    /\ current_attachment_step = ATTACH_STEP_1
    /\ lte_connected_sem = 0
    /\ gps_fix_sem = 0
    /\ err = "none"
    /\ gps_coordinates_valid = FALSE
    /\ device_lat = 0
    /\ device_lon = 0
    /\ sat_valid \in { InitialSatValid, AllSatValid }
    /\ update_needed \in BOOLEAN
    /\ last_update_time = 0
    /\ consecutive_failures \in 0..MaxFailures
    /\ update_interval_hours = IF consecutive_failures > 3
                               THEN TLE_UPDATE_INTERVAL_HOURS * 2
                               ELSE TLE_UPDATE_INTERVAL_HOURS
    /\ recovery_attempts = 0
    /\ last_good_state = STATE_IDLE
    /\ error_state = STATE_INIT
    /\ next_pass = NoPass
    /\ pred_ret = "OK"
    /\ query_time = NoTime
    /\ uptime = 0
    /\ sinceFeed = 0
    /\ modemOnline = FALSE
    /\ gnssRunning = FALSE
    /\ sigFresh = FALSE
    /\ streak = 0
    /\ level = "none"
    /\ inc_tmp = NoValue
    /\ regSinceInvoke = FALSE
    /\ payload_len = 0
    /\ buffer_size = PAYLOAD_BUFFER_SIZE
    /\ fmt_ret = "none"
    /\ fmt_len = NoValue
    /\ send_outcomes = << >>
    /\ tx_ret = "none"
    /\ send_attempts = 0
    /\ at_lat = NoCoord
    /\ osc = 0

\* STATE_TLE_UPDATE, lines 777-783: one call update_sateliot_tles() and the
\* count of its failure
CallTleUpdate ==
    /\ pc = "tle"
    /\ consecutive_failures < MaxFailures
    /\ \E t \in Times :
         /\ t >= uptime
         /\ uptime' = t
         /\ LET u == update_sateliot_tles(t, update_needed, last_update_time,
                         update_interval_hours, consecutive_failures, sat_valid)
            IN  /\ err' = u.ret
                /\ update_needed' = u.needed
                /\ last_update_time' = u.last
                /\ update_interval_hours' = u.interval
                /\ consecutive_failures' = IF u.ret # "OK" THEN u.failures + 1 ELSE u.failures
    /\ UNCHANGED << attachVars, sendVars, raceVars, pc, current_state, current_attachment_step,
                    semVars, posVars, sat_valid, recVars, last_good_state,
                    predVars, sinceFeed, envVars >>

NextTle == CallTleUpdate

SpecTle == InitTle /\ [][NextTle]_vars

IdleStep ==
    /\ pc = "loop"
    /\ current_state = STATE_IDLE
    /\ << current_state, sinceFeed, uptime >>' # << current_state, sinceFeed, uptime >>

\* C14: Idle goes to the TLE update, without computing a pass and without
\* sleeping, if and only if update_needed is set or the time since
\* last_update_time is more than the interval; otherwise it does not go there.
C14_RefreshIffFlaggedOrStale ==
    [][IdleStep =>
         LET due == \/ update_needed
                    \/ (uptime' - last_update_time) > update_interval_hours * 3600000
         IN  /\ (current_state' = STATE_TLE_UPDATE) <=> due
             /\ due => (UNCHANGED predVars /\ sinceFeed' = LOOP_PAUSE_MS)]_vars

\* Idle has handed over to the TLE update on staleness alone
C14_Witness ==
    /\ pc = "loop"
    /\ current_state = STATE_TLE_UPDATE
    /\ ~update_needed
    /\ uptime - last_update_time > update_interval_hours * 3600000
    /\ sinceFeed = LOOP_PAUSE_MS

\* C15: when Idle does not go to the TLE update it sleeps once, for
\* min(time until the pass starts, 30 minutes) with a valid position and for
\* 30 s with an invalid one, and then the state is the fix wait; it never
\* stays in Idle and never sleeps the whole gap to the pass.
C15_IdleSleepsOneSlice ==
    [][(IdleStep /\ current_state' # STATE_TLE_UPDATE) =>
         LET blocked == sinceFeed' - LOOP_PAUSE_MS
             gap == next_pass'.start_time - uptime'
         IN  /\ current_state' = STATE_GETTING_GPS_FIX
             /\ blocked <= 30 * 60 * 1000
             /\ gps_coordinates_valid =>
                  /\ pred_ret' = "OK"
                  /\ gap > 0
                  /\ blocked = IF gap < 30 * 60 * 1000 THEN gap ELSE 30 * 60 * 1000
             /\ ~gps_coordinates_valid => (blocked = 30 * 1000 /\ UNCHANGED predVars)]_vars

\* Idle has slept the minute that was left until the pass
C15_Witness ==
    /\ pc = "loop"
    /\ current_state = STATE_GETTING_GPS_FIX
    /\ gps_coordinates_valid
    /\ next_pass # NoPass
    /\ next_pass.start_time = uptime + 60000
    /\ sinceFeed = 60000 + LOOP_PAUSE_MS

\* C16: the fix wait resets the semaphore on entry and waits at most 180 s; a
\* signal, or a timeout with a valid position, leads to attachment step 1, a
\* timeout with an invalid position leads to Idle, and nothing else follows.
C16_FixWaitOutcome ==
    [][/\ (pc = "loop" /\ current_state = STATE_GETTING_GPS_FIX /\ pc' # pc)
            => (pc' = "gps_wait" /\ gps_fix_sem' = 0 /\ UNCHANGED current_state)
       /\ (pc = "gps_wait" /\ pc' # pc) =>
            /\ pc' = "loop"
            /\ sinceFeed' - sinceFeed - LOOP_PAUSE_MS <= 180 * 1000
            /\ current_state' \in { STATE_ATTEMPTING_CONNECTION_STEP1, STATE_IDLE }
            /\ gps_fix_sem = 1 => current_state' = STATE_ATTEMPTING_CONNECTION_STEP1
            /\ (gps_fix_sem = 0 /\ gps_coordinates_valid)
                   => current_state' = STATE_ATTEMPTING_CONNECTION_STEP1
            /\ (gps_fix_sem = 0 /\ ~gps_coordinates_valid)
                   => current_state' = STATE_IDLE]_vars

\* the wait has timed out with no valid position and the state is Idle again
C16_Witness ==
    /\ pc = "loop"
    /\ current_state = STATE_IDLE
    /\ err = "EAGAIN"
    /\ ~gps_coordinates_valid
    /\ gps_fix_sem = 0
    /\ sinceFeed = GPS_FIX_TIMEOUT_MS + LOOP_PAUSE_MS

\* C17: whatever format_telemetry_data and robust_data_send return, the send
\* state takes the modem offline and the next state is Idle; no step of it
\* leads to Error or Recovery or changes recovery_attempts, and
\* robust_data_send is not called when the encoding failed.
C17_SendAlwaysEndsInIdle ==
    [][/\ (pc = "loop" /\ current_state = STATE_SENDING_DATA /\ pc' # pc)
            => (pc' = "send_tx" /\ UNCHANGED << current_state, recovery_attempts >>)
       /\ (pc = "send_tx" /\ pc' # pc) =>
            /\ pc' = "send_done"
            /\ UNCHANGED << current_state, recovery_attempts >>
            /\ fmt_ret # "OK" => (tx_ret' = "skipped" /\ send_attempts' = 0)
            /\ fmt_ret = "OK" => (tx_ret' \in { "OK", "EIO" } /\ send_attempts' >= 1)
       /\ (pc = "send_done" /\ pc' # pc) =>
            /\ pc' = "loop"
            /\ current_state' = STATE_IDLE
            /\ ~modemOnline'
            /\ UNCHANGED recovery_attempts]_vars

\* the encoding has failed, the transport was left out, and a counter that
\* is not 0 is as it was
C17_Witness ==
    /\ pc = "send_done"
    /\ current_state = STATE_SENDING_DATA
    /\ fmt_ret = "EFAULT"
    /\ tx_ret = "skipped"
    /\ send_attempts = 0

\* C19: from a counter of 0 and with no registration event in between, the
\* first three invocations of attempt_error_recovery run level 1 (offline and
\* pause), level 2 (reset and reconfiguration) and level 3 (configuration
\* reset and reconfiguration), in this order, each once.
C19_LevelsInOrder ==
    [][/\ (pc = "rec_select" /\ pc' = "loop" /\ streak = 1)
            => (level' = "1" /\ ~modemOnline' /\ err' = "OK")
       /\ (pc = "rec_select" /\ pc' = "loop" /\ streak = 2)
            => (level' = "2" /\ ~modemOnline')
       /\ (pc = "rec_select" /\ pc' = "loop" /\ streak = 3)
            => (level' = "3" /\ update_needed' /\ ~gps_coordinates_valid'
                /\ last_good_state' = STATE_IDLE)
       /\ (pc = "loop" /\ pc' = "rec_inc" /\ streak \in 1..2)
            => streak' = streak + 1]_vars

\* the third invocation in a row has run level 3
C19_Witness ==
    /\ pc = "loop"
    /\ streak = 3
    /\ level = "3"
    /\ recovery_attempts = 0
    /\ update_needed

\* C20: after a registration event recovery_attempts is 0 and stays 0 until
\* attempt_error_recovery is called again, also when the event is handled
\* while the call is incrementing the counter.
C20_CounterZeroAfterRegistration ==
    regSinceInvoke => recovery_attempts = 0

\* the states of the two-step attachment
AttachStates ==
    { STATE_ATTEMPTING_CONNECTION_STEP1, STATE_ATTEMPTING_CONNECTION_STEP2 }

\* C21: the attachment has no retry cap: a timeout of Step 1 leads to Step 2,
\* a timeout of Step 2 takes the modem offline and leads back to Step 1,
\* however many timeouts there were before, and the two states are left only
\* by a registration signal or by a failed configuration, never to Idle or
\* Recovery; so the machine need not return to Idle from Step 1.
C21_AttachOscillatesWithoutCap ==
    [][/\ (pc = "s1_wait" /\ pc' = "loop" /\ lte_connected_sem = 0)
            => (current_state' = STATE_ATTEMPTING_CONNECTION_STEP2 /\ osc' = osc)
       /\ (pc = "s2_wait" /\ pc' = "loop" /\ lte_connected_sem = 0)
            => /\ current_state' = STATE_ATTEMPTING_CONNECTION_STEP1
               /\ ~modemOnline'
               /\ osc' = IF osc < MaxOsc THEN osc + 1 ELSE osc
       /\ (current_state \in AttachStates /\ current_state' \notin AttachStates)
            => \/ (current_state' = STATE_SENDING_DATA /\ lte_connected_sem = 1)
               \/ /\ current_state' = STATE_ERROR
                  /\ current_state = STATE_ATTEMPTING_CONNECTION_STEP1
                  /\ err' = "ECFG"]_vars

\* Step 1 is entered again after MaxOsc timeouts of Step 2 in a row, with no
\* registration event since the last connect request
C21_Witness ==
    /\ pc = "loop"
    /\ current_state = STATE_ATTEMPTING_CONNECTION_STEP1
    /\ last_good_state = STATE_ATTEMPTING_CONNECTION_STEP2
    /\ osc = MaxOsc
    /\ ~modemOnline
    /\ ~sigFresh
    /\ lte_connected_sem = 0

\* C22: last_good_state is never Error or Recovery; set_state stores the state
\* that is left when it is neither of them, and leaves last_good_state as it
\* is when Error or Recovery is left and when the state does not change.
C22_LastGoodStateIsSane ==
    [][/\ last_good_state \notin { STATE_ERROR, STATE_RECOVERY }
       /\ last_good_state' \notin { STATE_ERROR, STATE_RECOVERY }
       /\ (current_state' # current_state
           /\ current_state \notin { STATE_ERROR, STATE_RECOVERY })
            => last_good_state' = current_state
       /\ (current_state' # current_state
           /\ current_state \in { STATE_ERROR, STATE_RECOVERY })
            => \/ last_good_state' = last_good_state
               \/ (level' = "3" /\ last_good_state' = STATE_IDLE)
       /\ (current_state' = current_state /\ pc # "boot")
            => last_good_state' = last_good_state]_vars

\* Error has been left for Recovery and last_good_state is still Step 1
C22_Witness ==
    /\ pc = "loop"
    /\ current_state = STATE_RECOVERY
    /\ last_good_state = STATE_ATTEMPTING_CONNECTION_STEP1

\* C23: the TLE update state always leads to the fix wait, and when it is
\* left update_needed is false and last_update_time is the time of the
\* refresh: the refresh entered from Idle never takes its early return.
C23_RefreshAlwaysPerforms ==
    [][(pc = "loop" /\ current_state = STATE_TLE_UPDATE
        /\ << current_state, sinceFeed, uptime >>' # << current_state, sinceFeed, uptime >>)
        => /\ current_state' = STATE_GETTING_GPS_FIX
           /\ err' = "OK"
           /\ ~update_needed'
           /\ last_update_time' = uptime'
           /\ last_good_state' = STATE_TLE_UPDATE]_vars

\* the second refresh in a row, entered on staleness, has set the time
C23_Witness ==
    /\ pc = "loop"
    /\ current_state = STATE_GETTING_GPS_FIX
    /\ last_good_state = STATE_TLE_UPDATE
    /\ ~update_needed
    /\ last_update_time = uptime
    /\ consecutive_failures = 2

\* C24: every invocation of attempt_error_recovery, at every level, leaves
\* the position (latitude, longitude, valid flag) as it was.
C24_RecoveryKeepsPosition ==
    [][(pc = "rec_select" /\ pc' = "loop") => UNCHANGED posVars]_vars

\* C25: the latitude and the longitude that one pass of
\* modem_configure_for_sateliot_attachment reads come from one fix.
C25_PositionReadFromOneFix ==
    [][(pc = "s1_cfg" /\ pc' = "s1_wait" /\ at_lat # NoCoord)
        => device_lon = FixLon(at_lat)]_vars

\* C26: level 3 of attempt_error_recovery runs only in the invocation that
\* finds the counter at 3, also when a registration event is handled between
\* the increment and the selection of the level.
C26_LevelThreeOnlyForThirdAttempt ==
    [][(pc = "rec_select" /\ pc' = "loop" /\ level' = "3")
        => recovery_attempts = 3]_vars

\* main() has reached the state machine loop
InLoop == pc \notin { "boot", "init_wdt", "init_modem", "init_gnss", "init_pm", "halted" }

\* C27: in the loop Error is entered only from Step 1, and Recovery is left
\* only for Step 1 or Idle.
C27_ErrorAndRecoverySuccessors ==
    [][/\ (InLoop /\ current_state' = STATE_ERROR /\ current_state # STATE_ERROR)
            => current_state = STATE_ATTEMPTING_CONNECTION_STEP1
       /\ (current_state = STATE_RECOVERY /\ current_state' # STATE_RECOVERY)
            => current_state' \in { STATE_ATTEMPTING_CONNECTION_STEP1, STATE_IDLE }]_vars

\* level 2 has succeeded and the machine is back in Step 1
C27_Witness ==
    /\ pc = "loop"
    /\ current_state = STATE_ATTEMPTING_CONNECTION_STEP1
    /\ level = "2"
    /\ err = "OK"
    /\ error_state = STATE_ATTEMPTING_CONNECTION_STEP1
    /\ sinceFeed = RECOVERY_HARD_SLEEP_MS + LOOP_PAUSE_MS

\* C28: in Step 1, Step 2 and the send state gps_coordinates_valid is true.
C28_AttachHasValidPosition ==
    current_state \in { STATE_ATTEMPTING_CONNECTION_STEP1,
                        STATE_ATTEMPTING_CONNECTION_STEP2,
                        STATE_SENDING_DATA }
        => gps_coordinates_valid

\* Step 1 is reached with a valid position after level 3 had reset it
C28_Witness ==
    /\ pc = "loop"
    /\ current_state = STATE_ATTEMPTING_CONNECTION_STEP1
    /\ level = "3"
    /\ gps_coordinates_valid
    /\ err = "EAGAIN"

====
